---- MODULE Spec2Model ----
(***************************************************************************)
(* Global CO2 Emissions Explorer (src/app.py): a Streamlit script that     *)
(* loads the OWID CO2 table once, cleans it, and on every rerun filters    *)
(* it for a choropleth map, a time-series line chart and a fossil-fuel     *)
(* bar chart.                                                              *)
(*                                                                         *)
(* A table cell is NaN (missing) or <<v>>.  A DataFrame is a sequence of   *)
(* rows [index |-> pandas row label, cells |-> [column -> cell]].          *)
(* The labels of the radio buttons and of the selectbox are written with   *)
(* an ASCII "CO2" where the source has the subscript form.                 *)
(*                                                                         *)
(* Lines 16-17 of app.py (DATA_URL, pd.read_csv) are read as the first     *)
(* statements of load_data, as the comments around them say; as the file   *)
(* is indented they would not compile.                                     *)
(*                                                                         *)
(* Streamlit reruns the whole script on every widget change: each action   *)
(* is one run, from load_data to the last chart.  A run stops where the    *)
(* script raises: int() of the minimum of an empty year column (line 65),  *)
(* sorted() over country names that mix strings and a missing value        *)
(* (line 76), st.multiselect given a default that is not among its         *)
(* options (line 77).                                                      *)
(***************************************************************************)
EXTENDS Integers, Sequences, FiniteSets, TLC

VARIABLES
    csv,                     \* the table behind DATA_URL (raw rows)
    cache,                   \* st.cache_data entry of load_data: None or <<df>>
    reads,                   \* number of pd.read_csv calls so far
    df_read,                 \* line 17: the table the latest pd.read_csv returned
    status,                  \* "init", "done", or the exception that stopped the run
    page,                    \* widgets and elements rendered by the latest run
    data,                    \* line 29
    comparison_mode,         \* line 57
    selected_year,           \* line 67
    selected_countries,      \* line 77
    selected_variable_label, \* line 90
    selected_variable_column,\* line 96
    map_variable_column,     \* lines 99-106
    map_data,                \* line 110
    line_chart_data,         \* line 112
    melted_data              \* line 161

vars == <<csv, cache, reads, df_read, status, page, data, comparison_mode, selected_year,
          selected_countries, selected_variable_label, selected_variable_column,
          map_variable_column, map_data, line_chart_data, melted_data>>

Range(s) == {s[i] : i \in 1..Len(s)}

---------------------------------------------------------------------------
(* Cells *)

NaN == <<>>
None == <<>>
Cell(v) == <<v>>
isna(c) == c = NaN

---------------------------------------------------------------------------
(* Program constants *)

SelectedColumns ==
    <<"country", "year", "co2", "co2_per_capita", "iso_code", "population",
      "gdp", "co2_per_gdp", "cumulative_co2", "coal_co2", "oil_co2",
      "gas_co2", "share_global_co2">>

\* Variants of dropna_subset with one column forgotten.
dropna_subset_without_iso_code == {"co2", "co2_per_capita", "year"}
dropna_subset_without_per_capita == {"co2", "year", "iso_code"}

dropna_subset == {"co2", "co2_per_capita", "year", "iso_code"}

\* Variant of regions_to_exclude with the last name forgotten.
regions_to_exclude_short ==
    <<"World", "Asia", "Europe", "North America", "South America",
      "International transport">>

regions_to_exclude ==
    <<"World", "Asia", "Europe", "North America", "South America",
      "International transport", "Micronesia (country)">>

RadioOptions == <<"Total Annual CO2", "CO2 Per Capita">>

DefaultCountries == <<"United States", "China", "India">>

VariableLabels ==
    <<"Annual CO2 Emissions (Million Tonnes)", "Population (Total)",
      "GDP (Total)", "CO2 Per GDP (Carbon Intensity)",
      "Share of Global CO2 (%)">>

variable_options ==
    ("Annual CO2 Emissions (Million Tonnes)" :> "co2") @@
    ("Population (Total)" :> "population") @@
    ("GDP (Total)" :> "gdp") @@
    ("CO2 Per GDP (Carbon Intensity)" :> "co2_per_gdp") @@
    ("Share of Global CO2 (%)" :> "share_global_co2")

id_vars == <<"country", "year">>
value_vars == <<"coal_co2", "oil_co2", "gas_co2">>
var_name == "Fuel Type"
value_name == "CO2 Emissions (Million Tonnes)"

---------------------------------------------------------------------------
(* Input domain: the tables the CSV may hold.  The file has more columns   *)
(* than the script selects; "methane" stands for them.                     *)

MaxExtra == 1

CsvColumns == Range(SelectedColumns) \cup {"methane"}
Years == {2000, 2002}
CountryNames ==
    <<"United States", "China", "India", "Africa", "World", "Asia", "Europe",
      "North America", "South America", "International transport",
      "Micronesia (country)">>
IsoCodes ==
    <<"USA", "CHN", "IND", "OWID_AFR", "OWID_WRL", "OWID_ASI", "OWID_EUR",
      "OWID_NAM", "OWID_SAM", "OWID_KOS", "FSM">>
CountryNo(c) == CHOOSE i \in 1..Len(CountryNames) : CountryNames[i] = c
ColumnNo(col) ==
    IF col = "methane" THEN 0
    ELSE CHOOSE i \in 1..Len(SelectedColumns) : SelectedColumns[i] = col

\* The value a present cell of column col holds in the row of (c, y).
Value(col, c, y) ==
    CASE col = "country" -> c
      [] col = "year" -> y
      [] col = "iso_code" -> IsoCodes[CountryNo(c)]
      [] OTHER -> 1000 * ColumnNo(col) + 20 * CountryNo(c) + (y - 2000)

MkRow(c, y, missing) ==
    [col \in CsvColumns |-> IF col \in missing THEN NaN ELSE Cell(Value(col, c, y))]

MissingPatterns ==
    {{"co2"}, {"co2_per_capita"}, {"year"}, {"iso_code"}, {"co2", "iso_code"},
     {"country"}, {"coal_co2"},
     {"population", "gdp", "co2_per_gdp", "share_global_co2"}}

RowSet ==
    {MkRow("United States", 2000, {}), MkRow("China", 2000, {})}
    \cup {MkRow("Africa", y, {}) : y \in Years}
    \cup {MkRow(c, 2000, {}) :
            c \in Range(CountryNames) \ {"United States", "China", "India", "Africa"}}
    \cup {MkRow("China", 2002, m) : m \in MissingPatterns}
    \cup {MkRow("World", 2002, {"iso_code"})}

\* The rows a new release of the dataset may add: the latest year of a
\* country and of an aggregate.
NewRows == {MkRow("Africa", 2002, {}), MkRow("World", 2002, {"iso_code"})}

DefaultRows ==
    <<MkRow("United States", 2000, {}), MkRow("China", 2002, {}),
      MkRow("India", 2002, {"gdp", "coal_co2"})>>

SeqsUpTo(S, n) == UNION {[1..k -> S] : k \in 0..n}

\* The file holds up to MaxExtra rows of RowSet, followed or not by the rows
\* of the three default countries.
Tables == {t \o h : t \in SeqsUpTo(RowSet, MaxExtra), h \in {<<>>, DefaultRows}}

MaxRows == Len(DefaultRows) + MaxExtra

---------------------------------------------------------------------------
(* pandas *)

read_csv(table) ==
    [i \in 1..Len(table) |-> [index |-> i - 1, cells |-> table[i]]]

dropna(df, subset) ==
    SelectSeq(df, LAMBDA r : \A c \in subset : ~isna(r.cells[c]))

\* Variant of select_columns that keeps every column of the file.
select_columns_all(df, cols) == df

select_columns(df, cols) ==
    [i \in 1..Len(df) |->
        [index |-> df[i].index, cells |-> [c \in Range(cols) |-> df[i].cells[c]]]]

isin(cell, values) == ~isna(cell) /\ cell[1] \in values

empty(df) == Len(df) = 0

\* Variant of melt with gas_co2 left out of value_vars.
melt_without_gas(df) ==
    [k \in 1..(2 * Len(df)) |->
        LET v == ((k - 1) \div Len(df)) + 1
            i == ((k - 1) % Len(df)) + 1
        IN  [index |-> k - 1,
             cells |-> [c \in Range(id_vars) \cup {var_name, value_name} |->
                          CASE c = var_name -> Cell(value_vars[v])
                            [] c = value_name -> df[i].cells[value_vars[v]]
                            [] OTHER -> df[i].cells[c]]]]

melt(df) ==
    [k \in 1..(Len(value_vars) * Len(df)) |->
        LET v == ((k - 1) \div Len(df)) + 1
            i == ((k - 1) % Len(df)) + 1
        IN  [index |-> k - 1,
             cells |-> [c \in Range(id_vars) \cup {var_name, value_name} |->
                          CASE c = var_name -> Cell(value_vars[v])
                            [] c = value_name -> df[i].cells[value_vars[v]]
                            [] OTHER -> df[i].cells[c]]]]

---------------------------------------------------------------------------
(* load_data and its cache *)

load_data(table) ==
    LET df0 == read_csv(table)
        df1 == dropna(df0, dropna_subset)
        df2 == select_columns(df1, SelectedColumns)
    IN  SelectSeq(df2, LAMBDA r : ~isin(r.cells["country"], Range(regions_to_exclude)))

\* Variant of cache_data without the decorator: every run reads the file.
cache_data_off(entry, table) == [value |-> load_data(table), miss |-> TRUE]

\* @st.cache_data: the body runs only when the cache holds no entry.
cache_data(entry, table) ==
    IF entry # None
    THEN [value |-> entry[1], miss |-> FALSE]
    ELSE [value |-> load_data(table), miss |-> TRUE]

\* Variant of Charts that draws the line chart without looking at its table.
Charts_line_unguarded(map, line, melted) ==
    (IF ~empty(map) THEN {"fig_map"} ELSE {})
    \cup {"fig_line"}
    \cup (IF ~empty(melted) THEN {"fig_bar"} ELSE {"warning_bar"})

\* What the page shows below the sidebar: each chart only when its table
\* is not empty, the line and bar charts replaced by a warning otherwise.
Charts(map, line, melted) ==
    (IF ~empty(map) THEN {"fig_map"} ELSE {})
    \cup (IF ~empty(line) THEN {"fig_line"} ELSE {"warning_line"})
    \cup (IF ~empty(melted) THEN {"fig_bar"} ELSE {"warning_bar"})

---------------------------------------------------------------------------
(* The script *)

MapVariableColumn(mode) ==
    IF mode = "Total Annual CO2" THEN "co2" ELSE "co2_per_capita"

\* Variant of MapData that keeps the years from the selected one on.
MapData_from_year(df, year) == SelectSeq(df, LAMBDA r : r.cells["year"][1] >= year)

MapData(df, year) == SelectSeq(df, LAMBDA r : r.cells["year"] = Cell(year))

YearsOf(df) == {df[i].cells["year"][1] : i \in 1..Len(df)}
min_year(df) == CHOOSE y \in YearsOf(df) : \A z \in YearsOf(df) : y <= z
max_year(df) == CHOOSE y \in YearsOf(df) : \A z \in YearsOf(df) : y >= z

\* Variant of LineChartData that keeps only the latest year of each country.
LineChartData_latest_year(df, countries) ==
    SelectSeq(df, LAMBDA r : isin(r.cells["country"], countries)
                             /\ r.cells["year"] = Cell(max_year(df)))

LineChartData(df, countries) ==
    SelectSeq(df, LAMBDA r : isin(r.cells["country"], countries))

CountryCells(df) == {df[i].cells["country"] : i \in 1..Len(df)}
\* sorted() of the unique countries; a missing country is a float and does
\* not compare with a string.
SortRaises(df) == NaN \in CountryCells(df) /\ CountryCells(df) # {NaN}
country_list(df) == {c[1] : c \in CountryCells(df) \ {NaN}}

\* A widget returns the session's value, or its default on first use.
Widget(stored, default) == IF stored = None THEN default ELSE stored[1]

NoSession == [radio |-> None, slider |-> None, multiselect |-> None, selectbox |-> None]

\* A run stopped by an exception: the names bound after it do not exist.
Aborted(exception, rendered, ld, mode, year) ==
    [status |-> exception, page |-> rendered, load |-> ld,
     comparison_mode |-> mode, selected_year |-> year, selected_countries |-> {},
     selected_variable_label |-> "", selected_variable_column |-> "",
     map_variable_column |-> "", map_data |-> <<>>, line_chart_data |-> <<>>,
     melted_data |-> <<>>]

\* One run of the script, top to bottom, over the table behind the URL, the
\* cache entry and the widget values the session holds.
Script(table, entry, session) ==
    LET ld == cache_data(entry, table)
        df == ld.value
        mode == Widget(session.radio, RadioOptions[1])
    IN  \* line 65: int() of the minimum of no years
        IF empty(df) THEN Aborted("ValueError", {"radio"}, ld, mode, 0)
        ELSE
        LET year == Widget(session.slider, max_year(df))
        IN
        \* line 76: sorted() raises
        IF SortRaises(df) THEN Aborted("TypeError", {"radio", "slider"}, ld, mode, year)
        \* line 77: st.multiselect refuses a default that is not an option
        ELSE IF ~(Range(DefaultCountries) \subseteq country_list(df))
             THEN Aborted("StreamlitAPIException", {"radio", "slider"}, ld, mode, year)
        ELSE
        LET countries == Widget(session.multiselect, Range(DefaultCountries))
            label == Widget(session.selectbox, VariableLabels[1])
            map == MapData(df, year)
            line == LineChartData(df, countries)
            melted == melt(line)
        IN  [status |-> "done",
             page |-> {"radio", "slider", "multiselect", "selectbox", "caption"}
                      \cup Charts(map, line, melted),
             load |-> ld,
             comparison_mode |-> mode,
             selected_year |-> year,
             selected_countries |-> countries,
             selected_variable_label |-> label,
             selected_variable_column |-> variable_options[label],
             map_variable_column |-> MapVariableColumn(mode),
             map_data |-> map,
             line_chart_data |-> line,
             melted_data |-> melted]

\* The values the session holds for the widgets the latest run rendered.
Session ==
    [radio |-> IF "radio" \in page THEN <<comparison_mode>> ELSE None,
     slider |-> IF "slider" \in page THEN <<selected_year>> ELSE None,
     multiselect |-> IF "multiselect" \in page THEN <<selected_countries>> ELSE None,
     selectbox |-> IF "selectbox" \in page THEN <<selected_variable_label>> ELSE None]

Rerun(session) ==
    \E run \in {Script(csv, cache, session)} :
        /\ cache' = <<run.load.value>>
        /\ reads' = IF run.load.miss THEN reads + 1 ELSE reads
        /\ df_read' = IF run.load.miss THEN csv ELSE df_read
        /\ data' = run.load.value
        /\ status' = run.status
        /\ page' = run.page
        /\ comparison_mode' = run.comparison_mode
        /\ selected_year' = run.selected_year
        /\ selected_countries' = run.selected_countries
        /\ selected_variable_label' = run.selected_variable_label
        /\ selected_variable_column' = run.selected_variable_column
        /\ map_variable_column' = run.map_variable_column
        /\ map_data' = run.map_data
        /\ line_chart_data' = run.line_chart_data
        /\ melted_data' = run.melted_data
        /\ UNCHANGED csv

---------------------------------------------------------------------------
(* Actions *)

Init ==
    /\ csv \in Tables
    /\ cache = None
    /\ reads = 0
    /\ df_read = <<>>
    /\ status = "init"
    /\ page = {}
    /\ data = <<>>
    /\ comparison_mode = ""
    /\ selected_year = 0
    /\ selected_countries = {}
    /\ selected_variable_label = ""
    /\ selected_variable_column = ""
    /\ map_variable_column = ""
    /\ map_data = <<>>
    /\ line_chart_data = <<>>
    /\ melted_data = <<>>

\* The page is opened: the first run.
Open ==
    /\ status = "init"
    /\ Rerun(NoSession)

ChangeComparisonMode ==
    /\ "radio" \in page
    /\ \E m \in Range(RadioOptions) \ {comparison_mode} :
          Rerun([Session EXCEPT !.radio = <<m>>])

ChangeYear ==
    /\ "slider" \in page
    /\ \E y \in (min_year(data)..max_year(data)) \ {selected_year} :
          Rerun([Session EXCEPT !.slider = <<y>>])

\* The multiselect changes by one option added, one removed, or all cleared.
MultiselectEdits(options, selected) ==
    {selected \cup {c} : c \in options} \cup {selected \ {c} : c \in options} \cup {{}}

ChangeCountries ==
    /\ status = "done"
    /\ \E s \in MultiselectEdits(country_list(data), selected_countries) \ {selected_countries} :
          Rerun([Session EXCEPT !.multiselect = <<s>>])

ChangeVariable ==
    /\ status = "done"
    /\ \E l \in Range(VariableLabels) \ {selected_variable_label} :
          Rerun([Session EXCEPT !.selectbox = <<l>>])

\* The owner of the dataset publishes a new row.
Upstream ==
    /\ Len(csv) < MaxRows
    /\ \E r \in NewRows : csv' = Append(csv, r)
    /\ UNCHANGED <<cache, reads, df_read, status, page, data, comparison_mode, selected_year,
                   selected_countries, selected_variable_label,
                   selected_variable_column, map_variable_column, map_data,
                   line_chart_data, melted_data>>

Next ==
    \/ Open
    \/ ChangeComparisonMode
    \/ ChangeYear
    \/ ChangeCountries
    \/ ChangeVariable
    \/ Upstream

Spec == Init /\ [][Next]_vars

---------------------------------------------------------------------------
(* Properties *)

Loaded == status # "init"
Done == status = "done"
Indices(df) == {df[i].index : i \in 1..Len(df)}
\* The row of the table read from the file that row r of a frame comes from.
InputRow(r) == df_read[r.index + 1]
KeyFields == {"co2", "co2_per_capita", "year", "iso_code"}
Denylist ==
    {"World", "Asia", "Europe", "North America", "South America",
     "International transport", "Micronesia (country)"}
ThirteenColumns ==
    {"country", "year", "co2", "co2_per_capita", "iso_code", "population", "gdp",
     "co2_per_gdp", "cumulative_co2", "coal_co2", "oil_co2", "gas_co2",
     "share_global_co2"}
Fuels == {"coal_co2", "oil_co2", "gas_co2"}
TimeSeriesColumns == {"population", "gdp", "co2_per_gdp", "share_global_co2"}
MissingKeyField(row) == \E c \in KeyFields : row[c] = NaN
Denylisted(row) == \E n \in Denylist : row["country"] = <<n>>

\* C1: no row of the table load_data returns misses co2, co2_per_capita, year
\* or iso_code, and no row of the file that misses one of the four is in it.
C1_NoMissingKeyField ==
    Loaded =>
        /\ \A i \in 1..Len(data) : \A c \in KeyFields : data[i].cells[c] # NaN
        /\ \A j \in 1..Len(df_read) :
              MissingKeyField(df_read[j]) => (j - 1) \notin Indices(data)

C1_Witness ==
    /\ Loaded
    /\ Len(data) > 0
    /\ \E j \in 1..Len(df_read) :
          /\ df_read[j]["iso_code"] = NaN
          /\ \A c \in KeyFields \ {"iso_code"} : df_read[j][c] # NaN
          /\ ~Denylisted(df_read[j])

MapDataIsYearFilter ==
    Done =>
        /\ \A i \in 1..Len(map_data) : map_data[i].cells["year"] = <<selected_year>>
        /\ Indices(map_data) =
              {data[i].index : i \in {k \in 1..Len(data) :
                                        data[k].cells["year"] = <<selected_year>>}}
        /\ Cardinality(Indices(map_data)) = Len(map_data)
        /\ \A i \in 1..Len(map_data) : \E k \in 1..Len(data) : map_data[i] = data[k]

\* C3: map_data is exactly the rows of data whose year is selected_year, each
\* once and unchanged, and a rerun that leaves selected_year alone (a change
\* of the countries, the variable or the mode) leaves map_data alone.
C3_MapDataIsYearFilter ==
    /\ []MapDataIsYearFilter
    /\ [][(Done /\ Done' /\ selected_year' = selected_year) => map_data' = map_data]_vars

C3_Witness ==
    /\ Done
    /\ Len(map_data) > 0
    /\ Len(map_data) < Len(data)
    /\ selected_year # max_year(data)
    /\ selected_countries # Range(DefaultCountries)
    /\ selected_variable_label # VariableLabels[1]

LineChartDataIsCountryFilter ==
    Done =>
        /\ Indices(line_chart_data) =
              {data[i].index : i \in {k \in 1..Len(data) :
                                        \E c \in selected_countries :
                                            data[k].cells["country"] = <<c>>}}
        /\ Cardinality(Indices(line_chart_data)) = Len(line_chart_data)
        /\ \A i \in 1..Len(line_chart_data) :
              \E k \in 1..Len(data) : line_chart_data[i] = data[k]
        /\ {<<melted_data[k].cells["country"], melted_data[k].cells["year"]>> :
                k \in 1..Len(melted_data)}
            = {<<line_chart_data[i].cells["country"], line_chart_data[i].cells["year"]>> :
                i \in 1..Len(line_chart_data)}

\* C4: line_chart_data is exactly the rows of data whose country is one of
\* selected_countries, whatever their year; the fossil-fuel breakdown covers
\* the same countries and years as it; and a rerun that leaves
\* selected_countries alone (a move of the year slider) leaves both alone.
C4_LineChartDataIsCountryFilter ==
    /\ []LineChartDataIsCountryFilter
    /\ [][(Done /\ Done' /\ selected_countries' = selected_countries)
            => (line_chart_data' = line_chart_data /\ melted_data' = melted_data)]_vars

C4_Witness ==
    /\ Done
    /\ selected_year = min_year(data)
    /\ Len(line_chart_data) > 1
    /\ Len(line_chart_data) < Len(data)
    /\ \E i, j \in 1..Len(line_chart_data) :
          line_chart_data[i].cells["year"] # line_chart_data[j].cells["year"]
    /\ Len(melted_data) > 0

\* The long-form row of frame row r for fuel column f.
LongRow(r, f) ==
    ("country" :> r.cells["country"]) @@ ("year" :> r.cells["year"]) @@
    ("Fuel Type" :> <<f>>) @@ ("CO2 Emissions (Million Tonnes)" :> r.cells[f])

\* C5: melted_data holds, for every row of line_chart_data and each of
\* coal_co2, oil_co2 and gas_co2, one row with that row's country, year and
\* value of the fuel column; it has three times the rows and no other row.
C5_MeltIsThreeRowsPerRow ==
    Done =>
        /\ Len(melted_data) = 3 * Len(line_chart_data)
        /\ \A i \in 1..Len(line_chart_data) : \A f \in Fuels :
              Cardinality({k \in 1..Len(melted_data) :
                              melted_data[k].cells = LongRow(line_chart_data[i], f)})
              = Cardinality({j \in 1..Len(line_chart_data) :
                              LongRow(line_chart_data[j], f) = LongRow(line_chart_data[i], f)})
        /\ \A k \in 1..Len(melted_data) :
              \E i \in 1..Len(line_chart_data) : \E f \in Fuels :
                  melted_data[k].cells = LongRow(line_chart_data[i], f)

C5_Witness ==
    /\ Done
    /\ Len(line_chart_data) > Len(DefaultRows)
    /\ \E k \in 1..Len(melted_data) :
          melted_data[k].cells["CO2 Emissions (Million Tonnes)"] = NaN
    /\ \E i, j \in 1..Len(line_chart_data) :
          i # j /\ line_chart_data[i].cells = line_chart_data[j].cells

\* C6: every row load_data returns has the 13 selected columns and no other,
\* each with the value of the row of the file it comes from, and the rows
\* kept for the map and for the line chart are rows of data, unchanged.
C6_ValuesUnchanged ==
    Loaded =>
        /\ \A i \in 1..Len(data) :
              /\ DOMAIN data[i].cells = ThirteenColumns
              /\ \A c \in ThirteenColumns : data[i].cells[c] = InputRow(data[i])[c]
        /\ \A i \in 1..Len(map_data) : \E k \in 1..Len(data) : map_data[i] = data[k]
        /\ \A i \in 1..Len(line_chart_data) :
              \E k \in 1..Len(data) : line_chart_data[i] = data[k]

C6_Witness ==
    /\ Done
    /\ Len(map_data) > 0
    /\ Len(line_chart_data) > 0
    /\ Len(data) < Len(df_read)
    /\ \E i \in 1..Len(data) :
          /\ data[i].index # i - 1
          /\ data[i].cells["coal_co2"] = NaN
          /\ InputRow(data[i])["methane"] # NaN

\* C7: the file is read on the first run only; every later run, whatever
\* widget triggered it, reads nothing and has the same data.
C7_LoadedOnce ==
    /\ [](reads <= 1 /\ (Loaded <=> reads = 1))
    /\ [][Loaded => (reads' = reads /\ data' = data)]_vars

C7_Witness ==
    /\ Done
    /\ reads = 1
    /\ csv # df_read
    /\ load_data(csv) # data
    /\ comparison_mode # RadioOptions[1]
    /\ selected_year # max_year(data)
    /\ selected_countries # Range(DefaultCountries)
    /\ selected_variable_label # VariableLabels[1]

\* C8: after load_data no row of the result has the name of a global or
\* aggregate region such as World or Africa as its country (stated of the
\* runs that go on to render the page).
C8_NoAggregateRegion ==
    Done =>
        \A i \in 1..Len(data) :
            data[i].cells["country"] \notin {<<"World">>, <<"Africa">>}

C10_MapColumnsPresent ==
    Done =>
        /\ (map_variable_column = "co2") <=> (comparison_mode = "Total Annual CO2")
        /\ (map_variable_column = "co2_per_capita") <=> (comparison_mode # "Total Annual CO2")
        /\ \A i \in 1..Len(map_data) :
              /\ map_data[i].cells[map_variable_column] # NaN
              /\ map_data[i].cells["iso_code"] # NaN

\* The time-series columns may be missing in rows of line_chart_data.
C10_Witness ==
    /\ Done
    /\ comparison_mode = "CO2 Per Capita"
    /\ "fig_map" \in page
    /\ \A c \in TimeSeriesColumns :
          \E i \in 1..Len(line_chart_data) : line_chart_data[i].cells[c] = NaN
    /\ \E i \in 1..Len(line_chart_data) :
          line_chart_data[i].cells[selected_variable_column] = NaN

====
